---------------------------- MODULE Spec2Model ----------------------------
(***************************************************************************)
(* A model of src/core.py: Transaction, Block (calculate_hash, mine_block) *)
(* and Blockchain (the ledger).                                            *)
(*                                                                         *)
(* Python strings are TLA+ strings, so calculate_hash builds the very      *)
(* string the code feeds to SHA-256.  Python objects that the code shares  *)
(* by reference live in two heaps: txHeap holds the Transaction objects    *)
(* and listHeap the list objects; a block's `transactions` and the         *)
(* ledger's `pending_transactions` are references into listHeap, exactly   *)
(* as Block.__init__ stores the list it is handed without copying it.      *)
(*                                                                         *)
(* hashlib.sha256 is a library, not code of the repository: it is         *)
(* modelled as a deterministic digest of DigestLen characters over the     *)
(* first HexBase hexadecimal digits (the real one has 64 characters over   *)
(* 16 digits).  Such a small digest collides; a statement that rests on    *)
(* SHA-256 not colliding says so in its formula.                           *)
(***************************************************************************)
EXTENDS Integers, Sequences, FiniteSets, TLC

VARIABLES
    txHeap,                 \* the Transaction objects, by object id
    listHeap,               \* the list objects, by object id: sequences of Transaction ids
    chain,                  \* Blockchain.chain: a sequence of blocks
    pending_transactions,   \* Blockchain.pending_transactions: a reference to a list object
    difficulty,             \* Blockchain.difficulty
    pc,                     \* where the program stands: "idle" when no call is running
    block,                  \* the block under construction: the local `block` of
                            \* mine_pending_transactions, or a block the caller holds
    miner_address,          \* the argument of the running mine_pending_transactions call,
                            \* None outside of one
    entry,                  \* history: what the last mine or seal call saw when it was entered
    log,                    \* history: the calls the caller has made to the ledger, in order
    tamper                  \* history: the out-of-contract edit made to the chain, if any

vars == <<txHeap, listHeap, chain, pending_transactions, difficulty, pc, block,
          miner_address, entry, log, tamper>>

ledger == <<txHeap, listHeap, chain, pending_transactions, difficulty>>

-----------------------------------------------------------------------------
(* Bounds of the model *)

DigestLen == 3          \* characters of a digest (64 in hashlib)
HexBase == 3            \* digits a digest character is drawn from (16 in hashlib)
MaxNonce == 24          \* sealing is followed up to this nonce
MaxCalls == 4           \* calls the caller makes to the ledger

-----------------------------------------------------------------------------
(* Python values *)

\* Python's None.  Addresses are strings; no address of the model is this one.
None == "<None>"

Addresses == {"A", "B", "C", "D"}
Miners == {"R1", "R2"}
Unknown == "unknown"

\* The transfers the caller submits: (sender, receiver, amount).
TxInputs == { <<"A", "B", 100>>, <<"C", "D", 10>>, <<"B", "B", 7>> }

\* int(time.time()): the clock advances by one second with every call made to the ledger.
time_time == Len(log) + 1

\* The difficulties a ledger is constructed with; 2 is the default, and the
\* largest is one more than the length of a digest.
Difficulties == {0, 2, DigestLen + 1}

\* str(int): Python's decimal rendering of an integer.
Str(n) == ToString(n)

\* repr of an address or None, as str(dict) renders a value.
Repr(v) == IF v = None THEN "None" ELSE "'" \o v \o "'"

\* Transaction.__init__
Transaction(sender, receiver, amount) ==
    [sender |-> sender, receiver |-> receiver, amount |-> amount]

\* str(t.__dict__) of one transaction.
DictStr(t) ==
    "{'sender': " \o Repr(t.sender) \o ", 'receiver': " \o Repr(t.receiver)
        \o ", 'amount': " \o Str(t.amount) \o "}"

\* The elements of str([...]) joined by ", ".
RECURSIVE JoinDicts(_)
JoinDicts(ts) ==
    IF ts = <<>> THEN ""
    ELSE IF Len(ts) = 1 THEN DictStr(ts[1])
    ELSE DictStr(ts[1]) \o ", " \o JoinDicts(Tail(ts))

\* str([t.__dict__ for t in transactions])
ListStr(ts) == "[" \o JoinDicts(ts) \o "]"

-----------------------------------------------------------------------------
(* hashlib.sha256(...).hexdigest(), scaled down *)

HexDigits == "0123456789abcdef"

Alphabet == "0123456789abcdef{}[]':, -<>ABCDNRUiklmnorstuvw"

Chars == { SubSeq(Alphabet, i, i) : i \in 1..Len(Alphabet) }

CharCode == [c \in Chars |-> CHOOSE i \in 1..Len(Alphabet) : SubSeq(Alphabet, i, i) = c]

RECURSIVE Power(_, _)
Power(b, e) == IF e = 0 THEN 1 ELSE b * Power(b, e - 1)

DigestSpace == Power(HexBase, DigestLen)

\* The weight of the character at position i of the hashed string.
Weight(i) == 2 * (i % 5) + 1

\* The weighted sum of the character codes of s[lo..hi], by halves: the sum of
\* the two halves around the midpoint (lo + hi) \div 2.
RECURSIVE WeightedSum(_, _, _)
WeightedSum(s, lo, hi) ==
    IF lo > hi THEN 0
    ELSE IF lo = hi THEN CharCode[SubSeq(s, lo, lo)] * Weight(lo)
    ELSE CHOOSE sum \in { WeightedSum(s, lo, mid) + WeightedSum(s, mid + 1, hi) :
                              mid \in {(lo + hi) \div 2} } : TRUE

\* The digits of n, most significant first, in `len` characters.
RECURSIVE Digits(_, _)
Digits(n, len) ==
    IF len = 0 THEN ""
    ELSE Digits(n \div HexBase, len - 1) \o SubSeq(HexDigits, (n % HexBase) + 1, (n % HexBase) + 1)

\* sha.update(data.encode('utf-8')); sha.hexdigest()
\* (The string is bound once, as the element of a singleton set, and then digested.)
Sha256Hex(data) ==
    CHOOSE h \in { Digits((WeightedSum(s, 1, Len(s)) + Len(s)) % DigestSpace, DigestLen) :
                       s \in {data} } : TRUE


-----------------------------------------------------------------------------
(* Block *)

\* The Transaction objects a list object holds, in order.
Txs(l) == [i \in 1..Len(listHeap[l]) |-> txHeap[listHeap[l][i]]]

\* `data` of calculate_hash: the string handed to SHA-256.
PreHash(b) ==
    b.previous_hash \o Str(b.timestamp) \o Str(b.nonce) \o ListStr(Txs(b.transactions))

\* Block.calculate_hash
calculate_hash(b) == Sha256Hex(PreHash(b))

\* Block.__init__: the four fields as given (the list by reference), then the hash.
Block(previous_hash, transactions, timestamp, nonce) ==
    LET b == [previous_hash |-> previous_hash, transactions |-> transactions,
              timestamp |-> timestamp, nonce |-> nonce, hash |-> ""]
    IN  [b EXCEPT !.hash = calculate_hash(b)]

Min(a, b) == IF a < b THEN a ELSE b

\* '0' * n
RECURSIVE Zeros(_)
Zeros(n) == IF n = 0 THEN "" ELSE "0" \o Zeros(n - 1)

\* A faulty slice: a prefix longer than the string is filled up with zeros.
Prefix_pad(s, n) == SubSeq(s, 1, Min(n, Len(s))) \o Zeros(n - Min(n, Len(s)))

\* s[:n] of Python, for n >= 0.
Prefix(s, n) == SubSeq(s, 1, Min(n, Len(s)))

\* A faulty loop test: self.hash[:difficulty - 1] is compared with one zero less.
Sealed_short(b, d) == IF d = 0 THEN TRUE ELSE Prefix(b.hash, d - 1) = Zeros(d - 1)

\* The loop test of mine_block, negated: the block is sealed at this difficulty.
Sealed(b, d) == Prefix(b.hash, d) = Zeros(d)

\* A faulty turn of the loop: the hash is computed before the nonce is incremented.
mine_block_step_lag(b) ==
    LET b1 == [b EXCEPT !.hash = calculate_hash(b)]
    IN  [b1 EXCEPT !.nonce = @ + 1]

\* A faulty turn of the loop: self.nonce += 2.
mine_block_step_skip(b) ==
    LET b1 == [b EXCEPT !.nonce = @ + 2]
    IN  [b1 EXCEPT !.hash = calculate_hash(b1)]

\* A faulty turn of the loop: the nonce is not incremented.
mine_block_step_stay(b) == [b EXCEPT !.hash = calculate_hash(b)]

\* One turn of the loop of mine_block: self.nonce += 1; self.hash = self.calculate_hash()
mine_block_step(b) ==
    LET b1 == [b EXCEPT !.nonce = @ + 1]
    IN  [b1 EXCEPT !.hash = calculate_hash(b1)]

-----------------------------------------------------------------------------
(* Blockchain *)

\* Blockchain.create_genesis_block: Block("0", [], 0, 0); the empty list is list object 1.
create_genesis_block == Block("0", 1, 0, 0)

\* A faulty get_last_block: self.chain[0].
get_last_block_first == chain[1]

\* Blockchain.get_last_block: self.chain[-1]
get_last_block == chain[Len(chain)]

\* chain[i] of Python (indices from 0).
At(i) == chain[i + 1]

\* The indices i of range(1, len(self.chain)).
Appended == 1..(Len(chain) - 1)

NoBlock == [previous_hash |-> "", transactions |-> 0, timestamp |-> 0, nonce |-> 0, hash |-> ""]
NoEntry == [pool |-> <<>>, last |-> "", len |-> 0, nonce |-> 0, fresh |-> FALSE,
            block |-> NoBlock, txs |-> <<>>]
NoTamper == [kind |-> "none", index |-> 0, tx |-> 0, valid |-> TRUE, data |-> ""]

\* What a call sees when it is entered: the pool's contents, the last block's hash,
\* the length of the chain, the nonce of the block to seal, whether that
\* block's stored hash is the hash of its fields, the block and its transactions.
Entry(b) == [pool |-> Txs(pending_transactions), last |-> get_last_block.hash,
             len |-> Len(chain), nonce |-> b.nonce, fresh |-> b.hash = calculate_hash(b),
             block |-> b, txs |-> Txs(b.transactions)]

Call(op, who, tx) == [op |-> op, who |-> who, tx |-> tx]

\* The calls of the log made to one operation.
CallsOf(op) == { i \in 1..Len(log) : log[i].op = op }

\* The mine_pending_transactions calls that have returned.
Mined == Cardinality(CallsOf("mine_pending_transactions")) - (IF pc = "idle" THEN 0 ELSE 1)

\* The add_block calls the caller has made.
Added == Cardinality(CallsOf("add_block"))

\* Blockchain.__init__: the genesis block over its own empty list, an empty pool.
Init ==
    /\ txHeap = <<>>
    /\ listHeap = << <<>>, <<>> >>
    /\ chain = << create_genesis_block >>
    /\ pending_transactions = 2
    /\ difficulty \in Difficulties
    /\ pc = "idle"
    /\ block = NoBlock
    /\ miner_address = None
    /\ entry = NoEntry
    /\ log = <<>>
    /\ tamper = NoTamper

\* Blockchain.add_transaction: self.pending_transactions.append(transaction)
add_transaction(t) ==
    listHeap' = [listHeap EXCEPT ![pending_transactions] = Append(@, t)]

\* A Transaction is constructed and handed to add_transaction.
SubmitNew ==
    /\ Len(log) < MaxCalls
    /\ \E in \in TxInputs :
          txHeap' = Append(txHeap, Transaction(in[1], in[2], in[3]))
    /\ add_transaction(Len(txHeap) + 1)
    /\ log' = Append(log, Call("add_transaction", "", Len(txHeap) + 1))
    /\ UNCHANGED <<chain, pending_transactions, difficulty, pc, block,
                   miner_address, entry, tamper>>

\* The caller constructs a Transaction and submits it.
AddTransactionNew == pc = "idle" /\ SubmitNew

\* The caller submits once more a Transaction object it constructed earlier.
AddTransactionAgain ==
    /\ pc = "idle"
    /\ Len(log) < MaxCalls
    /\ \E t \in { o \in 1..Len(txHeap) : txHeap[o].sender # None } :
          /\ add_transaction(t)
          /\ log' = Append(log, Call("add_transaction", "", t))
    /\ UNCHANGED <<txHeap, chain, pending_transactions, difficulty, pc, block,
                   miner_address, entry, tamper>>

\* mine_pending_transactions, lines 102-103: the timestamp is read and the
\* candidate block is built over the pool's list object.
MineStart ==
    /\ pc = "idle"
    /\ Len(log) < MaxCalls
    /\ \E m \in Miners :
          /\ miner_address' = m
          /\ log' = Append(log, Call("mine_pending_transactions", m, 0))
    /\ LET timestamp == time_time
           b == Block(get_last_block.hash, pending_transactions, timestamp, 0)
       IN  block' = b /\ entry' = Entry(b)
    /\ pc' = "seal"
    /\ UNCHANGED <<ledger, tamper>>

\* mine_block, lines 61-63: the hash does not meet the target, so the next nonce is tried.
SealStep ==
    /\ pc = "seal"
    /\ ~Sealed(block, difficulty)
    /\ block.nonce < MaxNonce
    /\ block' = mine_block_step(block)
    /\ UNCHANGED <<ledger, pc, miner_address, entry, log, tamper>>

\* Blockchain.add_block: self.chain.append(block)
add_block(b) == chain' = Append(chain, b)

\* A faulty mine_pending_transactions: the block is appended without being sealed.
AppendMined_unsealed ==
    /\ pc = "seal"
    /\ miner_address # None
    /\ add_block(block)
    /\ pc' = "reward"
    /\ UNCHANGED <<txHeap, listHeap, pending_transactions, difficulty, block,
                   miner_address, entry, log, tamper>>

\* mine_block returns (the loop test fails), and line 106 appends the block.
AppendMined ==
    /\ pc = "seal"
    /\ miner_address # None
    /\ Sealed(block, difficulty)
    /\ add_block(block)
    /\ pc' = "reward"
    /\ UNCHANGED <<txHeap, listHeap, pending_transactions, difficulty, block,
                   miner_address, entry, log, tamper>>

\* A faulty line 107: the reward is appended to the pool's list, which is kept.
Reward_keepPool ==
    /\ pc = "reward"
    /\ txHeap' = Append(txHeap, Transaction(None, miner_address, 1))
    /\ listHeap' = [listHeap EXCEPT ![pending_transactions] = Append(@, Len(txHeap) + 1)]
    /\ pc' = "idle"
    /\ block' = NoBlock
    /\ miner_address' = None
    /\ UNCHANGED <<chain, pending_transactions, difficulty, entry, log, tamper>>

\* A faulty line 107: the reward transaction is put first into the appended
\* block's list, and the pool becomes a new list holding it.
Reward_inBlock ==
    /\ pc = "reward"
    /\ txHeap' = Append(txHeap, Transaction(None, miner_address, 1))
    /\ listHeap' = Append([listHeap EXCEPT ![pending_transactions] =
                                           << Len(txHeap) + 1 >> \o @],
                          << Len(txHeap) + 1 >>)
    /\ pending_transactions' = Len(listHeap) + 1
    /\ pc' = "idle"
    /\ block' = NoBlock
    /\ miner_address' = None
    /\ UNCHANGED <<chain, difficulty, entry, log, tamper>>

\* Line 107: the pool becomes a new list holding a new reward transaction.
Reward ==
    /\ pc = "reward"
    /\ txHeap' = Append(txHeap, Transaction(None, miner_address, 1))
    /\ listHeap' = Append(listHeap, << Len(txHeap) + 1 >>)
    /\ pending_transactions' = Len(listHeap) + 1
    /\ pc' = "idle"
    /\ block' = NoBlock
    /\ miner_address' = None
    /\ UNCHANGED <<chain, difficulty, entry, log, tamper>>

\* The caller constructs a block over a new empty list and hands it to add_block.
AddBlockFresh ==
    /\ pc = "idle"
    /\ Len(log) < MaxCalls
    /\ listHeap' = Append(listHeap, <<>>)
    /\ \E previous_hash \in {get_last_block.hash, "0"}, l \in {Len(listHeap) + 1},
          timestamp \in {time_time} :
          add_block(Block(previous_hash, l, timestamp, 0)')
    /\ log' = Append(log, Call("add_block", "", 0))
    /\ UNCHANGED <<txHeap, pending_transactions, difficulty, pc, block,
                   miner_address, entry, tamper>>

\* The caller constructs a block over the ledger's pending_transactions list
\* (as mine_pending_transactions does) and hands it to add_block.
AddBlockOverPool ==
    /\ pc = "idle"
    /\ Len(log) < MaxCalls
    /\ add_block(Block(get_last_block.hash, pending_transactions, time_time, 0))
    /\ log' = Append(log, Call("add_block", "", 0))
    /\ UNCHANGED <<txHeap, listHeap, pending_transactions, difficulty, pc, block,
                   miner_address, entry, tamper>>

\* A faulty inner loop of get_balance: the sender is credited, the receiver debited.
RECURSIVE BlockBalance_swapped(_, _, _)
BlockBalance_swapped(ts, address, balance) ==
    IF ts = <<>> THEN balance
    ELSE LET transaction == Head(ts)
             debited == IF transaction.receiver = address
                        THEN balance - transaction.amount ELSE balance
             credited == IF transaction.sender = address
                         THEN debited + transaction.amount ELSE debited
         IN  BlockBalance_swapped(Tail(ts), address, credited)

\* A faulty inner loop of get_balance: `elif` for the receiver.
RECURSIVE BlockBalance_elif(_, _, _)
BlockBalance_elif(ts, address, balance) ==
    IF ts = <<>> THEN balance
    ELSE LET transaction == Head(ts)
             updated == IF transaction.sender = address
                        THEN balance - transaction.amount
                        ELSE IF transaction.receiver = address
                        THEN balance + transaction.amount ELSE balance
         IN  BlockBalance_elif(Tail(ts), address, updated)

\* Blockchain.get_balance: the inner loop, over the transactions of one block.
RECURSIVE BlockBalance(_, _, _)
BlockBalance(ts, address, balance) ==
    IF ts = <<>> THEN balance
    ELSE LET transaction == Head(ts)
             debited == IF transaction.sender = address
                        THEN balance - transaction.amount ELSE balance
             credited == IF transaction.receiver = address
                         THEN debited + transaction.amount ELSE debited
         IN  BlockBalance(Tail(ts), address, credited)

\* Blockchain.get_balance: the outer loop, from block i of the chain on.
RECURSIVE ChainBalance(_, _, _)
ChainBalance(i, address, balance) ==
    IF i >= Len(chain) THEN balance
    ELSE ChainBalance(i + 1, address,
                      BlockBalance(Txs(At(i).transactions), address, balance))

\* Blockchain.get_balance
get_balance(address) == ChainBalance(0, address, 0)

HashMismatch == "Current block hash does not match"
LinkMismatch == "Previous block hash does not match"

Verdict(valid, report, index) == [valid |-> valid, report |-> report, index |-> index]

\* A faulty loop of is_chain_valid: the linkage is compared before the hash.
RECURSIVE ValidFrom_linkFirst(_)
ValidFrom_linkFirst(i) ==
    IF i >= Len(chain) THEN Verdict(TRUE, "", 0)
    ELSE LET current_block == At(i)
             previous_block == At(i - 1)
         IN  IF previous_block.hash # current_block.previous_hash
             THEN Verdict(FALSE, LinkMismatch, i)
             ELSE IF current_block.hash # calculate_hash(current_block)
             THEN Verdict(FALSE, HashMismatch, i)
             ELSE ValidFrom_linkFirst(i + 1)

\* Blockchain.is_chain_valid: the loop from index i on.  The verdict holds what
\* is returned, the message printed and the index the loop stood at.
RECURSIVE ValidFrom(_)
ValidFrom(i) ==
    IF i >= Len(chain) THEN Verdict(TRUE, "", 0)
    ELSE LET current_block == At(i)
             previous_block == At(i - 1)
         IN  IF current_block.hash # calculate_hash(current_block)
             THEN Verdict(FALSE, HashMismatch, i)
             ELSE IF previous_block.hash # current_block.previous_hash
             THEN Verdict(FALSE, LinkMismatch, i)
             ELSE ValidFrom(i + 1)

\* A faulty is_chain_valid: range(2, len(self.chain)).
is_chain_valid_from2 == ValidFrom(2)

\* A faulty is_chain_valid: the genesis block's stored hash is compared with the
\* hash of its fields before the loop.
is_chain_valid_genesis ==
    IF chain[1].hash # calculate_hash(chain[1])
    THEN Verdict(FALSE, HashMismatch, 0)
    ELSE ValidFrom(1)

\* Blockchain.is_chain_valid
is_chain_valid == ValidFrom(1)

-----------------------------------------------------------------------------
(* The three queries, as calls: what they return is kept in the log *)

Query(op, who, ret) == [op |-> op, who |-> who, tx |-> 0, ret |-> ret]

QueryOps == {"is_chain_valid", "get_balance", "get_last_block"}

\* A faulty is_chain_valid that stores the recomputed hash into the last block.
IsChainValid_repair ==
    /\ pc = "idle"
    /\ Len(log) < MaxCalls
    /\ log' = Append(log, Query("is_chain_valid", "", is_chain_valid))
    /\ chain' = [chain EXCEPT ![Len(chain)].hash = calculate_hash(get_last_block)]
    /\ UNCHANGED <<txHeap, listHeap, pending_transactions, difficulty, pc, block,
                   miner_address, entry, tamper>>

\* The caller calls is_chain_valid(): the method assigns to no attribute.
IsChainValid ==
    /\ pc = "idle"
    /\ Len(log) < MaxCalls
    /\ log' = Append(log, Query("is_chain_valid", "", is_chain_valid))
    /\ UNCHANGED <<ledger, pc, block, miner_address, entry, tamper>>

\* The caller calls get_balance(address): the method assigns to no attribute.
GetBalance ==
    /\ pc = "idle"
    /\ Len(log) < MaxCalls
    /\ \E address \in {"B", "R1"} :
          log' = Append(log, Query("get_balance", address, get_balance(address)))
    /\ UNCHANGED <<ledger, pc, block, miner_address, entry, tamper>>

\* The caller calls get_last_block(): the method assigns to no attribute.
GetLastBlock ==
    /\ pc = "idle"
    /\ Len(log) < MaxCalls
    /\ log' = Append(log, Query("get_last_block", "", get_last_block))
    /\ UNCHANGED <<ledger, pc, block, miner_address, entry, tamper>>

-----------------------------------------------------------------------------
(* Block used directly: the caller constructs a block, seals it, appends it *)

\* A nonce a caller constructs a block with, besides the default 0.
CallerNonces == {0, 3}

\* Block(previous_hash, transactions, timestamp, nonce), over a new empty list.
CallerConstructFresh ==
    /\ pc = "idle"
    /\ Len(log) < MaxCalls
    /\ listHeap' = Append(listHeap, <<>>)
    /\ \E previous_hash \in {get_last_block.hash, "0"}, l \in {Len(listHeap) + 1},
          timestamp \in {time_time}, nonce \in CallerNonces :
          block' = Block(previous_hash, l, timestamp, nonce)'
    /\ pc' = "built"
    /\ log' = Append(log, Call("Block", "", 0))
    /\ UNCHANGED <<txHeap, chain, pending_transactions, difficulty, miner_address,
                   entry, tamper>>

\* Block(previous_hash, transactions, timestamp, nonce), over the ledger's
\* pending_transactions list, as mine_pending_transactions builds its block.
CallerConstructOverPool ==
    /\ pc = "idle"
    /\ Len(log) < MaxCalls
    /\ \E nonce \in CallerNonces :
          block' = Block(get_last_block.hash, pending_transactions, time_time, nonce)
    /\ pc' = "built"
    /\ log' = Append(log, Call("Block", "", 0))
    /\ UNCHANGED <<ledger, miner_address, entry, tamper>>

\* The caller submits a transaction while it holds a block.
CallerAddTransaction == pc = "built" /\ SubmitNew

\* The caller calls block.mine_block(difficulty) with the ledger's difficulty.
CallerSeal ==
    /\ pc = "built"
    /\ Len(log) < MaxCalls
    /\ pc' = "seal"
    /\ entry' = Entry(block)
    /\ log' = Append(log, Call("mine_block", "", 0))
    /\ UNCHANGED <<ledger, block, miner_address, tamper>>

\* mine_block returns to the caller: the loop test fails.
SealReturn ==
    /\ pc = "seal"
    /\ miner_address = None
    /\ Sealed(block, difficulty)
    /\ pc' = "built"
    /\ UNCHANGED <<ledger, block, miner_address, entry, log, tamper>>

\* The caller hands the block it holds to add_block.
CallerAddBlock ==
    /\ pc = "built"
    /\ Len(log) < MaxCalls
    /\ add_block(block)
    /\ block' = NoBlock
    /\ pc' = "idle"
    /\ log' = Append(log, Call("add_block", "", 0))
    /\ UNCHANGED <<txHeap, listHeap, pending_transactions, difficulty, miner_address,
                   entry, tamper>>

-----------------------------------------------------------------------------
(* add_transaction called by another thread while mine_pending_transactions runs *)

\* add_transaction takes effect between two steps of a running
\* mine_pending_transactions call: after the candidate block is built (line 103)
\* and before the pool is replaced (line 107).  The log keeps where the mine stood.
AddTransactionRacing ==
    /\ pc \in {"seal", "reward"}
    /\ miner_address # None
    /\ Len(log) < MaxCalls
    /\ \E in \in TxInputs :
          txHeap' = Append(txHeap, Transaction(in[1], in[2], in[3]))
    /\ add_transaction(Len(txHeap) + 1)
    /\ log' = Append(log, Call("add_transaction", pc, Len(txHeap) + 1))
    /\ UNCHANGED <<chain, pending_transactions, difficulty, pc, block,
                   miner_address, entry, tamper>>

-----------------------------------------------------------------------------
(* Edits made to an appended block behind the ledger's back.  The tamper record  *)
(* keeps the block's index, the Transaction object, whether the chain was valid  *)
(* before the edit and the string block k handed to SHA-256 before the edit.      *)

\* The amount of a transaction of block k is changed; nothing is re-sealed.
TamperAmount ==
    /\ pc = "idle"
    /\ \E k \in Appended :
       \E j \in 1..Len(listHeap[At(k).transactions]) :
          LET t == listHeap[At(k).transactions][j]
          IN  \E amount \in {txHeap[t].amount + 1} :
                 /\ txHeap' = [txHeap EXCEPT ![t].amount = amount]
                 /\ tamper' = [kind |-> "amount", index |-> k, tx |-> t,
                               valid |-> is_chain_valid.valid, data |-> PreHash(At(k))]
    /\ UNCHANGED <<listHeap, chain, pending_transactions, difficulty, pc, block,
                   miner_address, entry, log>>

\* previous_hash of block k is replaced; the stored hash is left as it was.
TamperLink ==
    /\ pc = "idle"
    /\ \E k \in Appended :
       \E value \in {"0", At(0).hash} \ {At(k).previous_hash} :
          /\ chain' = [chain EXCEPT ![k + 1].previous_hash = value]
          /\ tamper' = [kind |-> "link", index |-> k, tx |-> 0,
                        valid |-> is_chain_valid.valid, data |-> PreHash(At(k))]
    /\ UNCHANGED <<txHeap, listHeap, pending_transactions, difficulty, pc, block,
                   miner_address, entry, log>>

\* A hashed field of the genesis block is changed (its timestamp, its nonce, or
\* its transaction list, which receives a Transaction object); its stored hash
\* is left as it was.
TamperGenesis ==
    /\ pc = "idle"
    /\ \/ chain' = [chain EXCEPT ![1].timestamp = @ + 1] /\ UNCHANGED listHeap
       \/ chain' = [chain EXCEPT ![1].nonce = @ + 1] /\ UNCHANGED listHeap
       \/ /\ \E t \in {Len(txHeap)} \ {0} :
                listHeap' = [listHeap EXCEPT ![chain[1].transactions] = Append(@, t)]
          /\ UNCHANGED chain
    /\ tamper' = [kind |-> "genesis", index |-> 0, tx |-> 0,
                  valid |-> is_chain_valid.valid, data |-> PreHash(At(0))]
    /\ UNCHANGED <<txHeap, pending_transactions, difficulty, pc, block,
                   miner_address, entry, log>>

\* timestamp and nonce of block k are changed together: both are raised by one,
\* or the leading decimal digit of a two-digit nonce is moved to the end of the
\* timestamp.  The stored hash is left as it was.
TamperFields ==
    /\ pc = "idle"
    /\ \E k \in Appended :
       \E fields \in { <<At(k).timestamp + 1, At(k).nonce + 1>>,
                       <<10 * At(k).timestamp + (At(k).nonce \div 10), At(k).nonce % 10>> } :
       \E timestamp \in {fields[1]}, nonce \in {fields[2]} :
          /\ timestamp # At(k).timestamp /\ nonce # At(k).nonce
          /\ chain' = [chain EXCEPT ![k + 1].timestamp = timestamp, ![k + 1].nonce = nonce]
          /\ tamper' = [kind |-> "fields", index |-> k, tx |-> 0,
                        valid |-> is_chain_valid.valid, data |-> PreHash(At(k))]
    /\ UNCHANGED <<txHeap, listHeap, pending_transactions, difficulty, pc, block,
                   miner_address, entry, log>>

-----------------------------------------------------------------------------
(* Specifications *)

Next ==
    \/ AddTransactionNew
    \/ AddTransactionAgain
    \/ MineStart
    \/ SealStep
    \/ AppendMined
    \/ Reward
    \/ AddBlockFresh
    \/ AddBlockOverPool

\* The ledger used through its public operations, one call at a time.
Spec == Init /\ [][Next]_vars

BlockNext ==
    \/ AddTransactionNew
    \/ CallerConstructFresh
    \/ CallerConstructOverPool
    \/ CallerAddTransaction
    \/ CallerSeal
    \/ SealStep
    \/ SealReturn
    \/ CallerAddBlock
    \/ MineStart
    \/ AppendMined
    \/ Reward

\* The ledger and the Block class used side by side, one call at a time.
BlockSpec == Init /\ [][BlockNext]_vars

\* The same, where a call that is running goes on running: the loop of
\* mine_block takes its next turn, and a method that can return returns.
LiveSpec ==
    /\ BlockSpec
    /\ WF_vars(SealStep) /\ WF_vars(SealReturn)
    /\ WF_vars(AppendMined) /\ WF_vars(Reward)

RaceNext ==
    \/ AddTransactionNew
    \/ AddTransactionRacing
    \/ MineStart
    \/ SealStep
    \/ AppendMined
    \/ Reward

\* AddTransaction and MinePendingTransactions, with add_transaction calls
\* interleaved between the steps of a running mine.
RaceSpec == Init /\ [][RaceNext]_vars

QueryNext ==
    \/ Next
    \/ IsChainValid
    \/ GetBalance
    \/ GetLastBlock

\* The public operations of the ledger, the three queries among them.
QuerySpec == Init /\ [][QueryNext]_vars

TamperNext ==
    \/ tamper.kind = "none" /\ Next
    \/ tamper.kind = "none" /\ TamperAmount
    \/ tamper.kind = "none" /\ TamperLink
    \/ tamper.kind = "none" /\ TamperGenesis
    \/ tamper.kind = "none" /\ TamperFields

\* The ledger used through its public operations, until one edit is made to an
\* appended block behind its back.
TamperSpec == Init /\ [][TamperNext]_vars


-----------------------------------------------------------------------------
(* The claims *)

LastCall == log[Len(log)]

\* C1: on a ledger used only through AddTransaction and MinePendingTransactions,
\* whenever no call is running and N mine calls have returned, the chain has
\* exactly N+1 blocks and IsChainValid() returns true.
C1_ChainLinkage ==
    (Added = 0 /\ pc = "idle") => (Len(chain) = Mined + 1 /\ is_chain_valid.valid)

\* Two mines have returned, the first of them over an empty pool.
C1_Witness ==
    /\ Added = 0 /\ pc = "idle" /\ Mined = 2
    /\ Txs(At(1).transactions) = <<>>
    /\ Len(chain) = 3 /\ is_chain_valid.valid

\* The run of the demonstration driver: AddTransaction(A->B:100), Mine(R1),
\* AddTransaction(C->D:10), Mine(R2), with R1 and R2 two different miners.
DemoRun ==
    /\ pc = "idle" /\ Len(log) = 4
    /\ log[1].op = "add_transaction" /\ txHeap[log[1].tx] = Transaction("A", "B", 100)
    /\ log[2].op = "mine_pending_transactions"
    /\ log[3].op = "add_transaction" /\ txHeap[log[3].tx] = Transaction("C", "D", 10)
    /\ log[4].op = "mine_pending_transactions"
    /\ log[2].who # log[4].who

\* C2 as stated: after the demonstration run GetBalance("A") = -100,
\* GetBalance("B") = 100, GetBalance(R1) = 1, GetBalance(R2) = 1 and
\* GetBalance("unknown") = 0.
C2_Original ==
    DemoRun => /\ get_balance("A") = -100
               /\ get_balance("B") = 100
               /\ get_balance(log[2].who) = 1
               /\ get_balance(log[4].who) = 1
               /\ get_balance(Unknown) = 0

\* C2, amended: after the demonstration run GetBalance("A") = -100,
\* GetBalance("B") = 100, GetBalance(R1) = 1, GetBalance("unknown") = 0, and
\* GetBalance(R2) = 0: the reward of the second mine is still in the pool.
C2_Balances ==
    DemoRun => /\ get_balance("A") = -100
               /\ get_balance("B") = 100
               /\ get_balance(log[2].who) = 1
               /\ get_balance(log[4].who) = 0
               /\ get_balance(Unknown) = 0
               /\ Txs(pending_transactions) = << Transaction(None, log[4].who, 1) >>

C2_Witness == DemoRun


\* The appended blocks whose list holds Transaction object t.
Holders(t) ==
    { i \in Appended : \E j \in 1..Len(listHeap[At(i).transactions]) :
                          listHeap[At(i).transactions][j] = t }

\* The stored hash of block i is not the hash of its fields.
Stale(i) == At(i).hash # calculate_hash(At(i))

Least(S) == CHOOSE i \in S : \A j \in S : i <= j

C4_Original ==
    (tamper.kind = "link" /\ tamper.valid /\ Stale(tamper.index))
        => is_chain_valid = Verdict(FALSE, LinkMismatch, tamper.index)

\* C4, amended: the replacement changes the string block k hands to SHA-256,
\* and IsChainValid() returns false at index k, where it reports the hash
\* mismatch, which it tests first; it reports the linkage mismatch only if the
\* recomputed digest collides with the stored one.
C4_BrokenLink ==
    (tamper.kind = "link" /\ tamper.valid)
        => /\ PreHash(At(tamper.index)) # tamper.data
           /\ is_chain_valid =
                 Verdict(FALSE,
                         IF Stale(tamper.index) THEN HashMismatch ELSE LinkMismatch,
                         tamper.index)

\* The link of block 2 of a valid chain was replaced and the digest changed.
C4_Witness ==
    /\ tamper.kind = "link" /\ tamper.valid /\ tamper.index = 2
    /\ Stale(2)
    /\ is_chain_valid = Verdict(FALSE, HashMismatch, 2)


\* Every appended block is linked to its predecessor and stores the hash of its fields.
Linked ==
    \A i \in Appended :
        /\ At(i).previous_hash = At(i - 1).hash
        /\ At(i).hash = calculate_hash(At(i))

\* C5 as stated: in every state reached through the public ledger operations,
\* AddBlock with any constructed block included, every block i >= 1 has
\* previous_hash equal to the hash of block i-1 and a hash equal to the hash
\* recomputed from its fields.
C5_Original == Linked

\* C5, amended: the same, in every state reached through AddTransaction,
\* MinePendingTransactions and the three queries, without AddBlock.
C5_LinkageInvariant == Added = 0 => Linked

\* Two blocks have been mined, the second over a pool of two transactions.
C5_Witness ==
    /\ Added = 0 /\ pc = "idle" /\ Len(chain) = 3
    /\ Len(Txs(At(2).transactions)) = 2
    /\ Linked

\* One step leaves the blocks of the chain as they were, their transaction
\* sequences included, and extends the chain by at most one block, which only
\* mine_pending_transactions and add_block do; block 0 is the genesis block.
C6_Step ==
    /\ Len(chain') \in {Len(chain), Len(chain) + 1}
    /\ \A i \in 1..Len(chain) :
          /\ chain'[i] = chain[i]
          /\ \A l \in {chain[i].transactions} : Txs(l)' = Txs(l)
    /\ Len(chain') = Len(chain) + 1
          => \/ pc = "seal"
             \/ Len(log') = Len(log) + 1 /\ log'[Len(log')].op = "add_block"
    /\ chain'[1].previous_hash = "0" /\ chain'[1].timestamp = 0 /\ chain'[1].nonce = 0
    /\ \A l \in {chain'[1].transactions} : Txs(l)' = <<>>

\* C6: the chain is append-only: every ledger operation leaves the previous
\* chain as an unchanged prefix of the new one, only MinePendingTransactions
\* and AddBlock extend it, by one block, and chain[0] is the genesis block.
C6_AppendOnly == [][C6_Step]_vars

\* mine_block has just returned: to mine_pending_transactions, which has
\* appended the block, or to the caller.
SealReturned ==
    \/ pc = "reward"
    \/ pc = "built" /\ LastCall.op = "mine_block"

\* C7: whenever Seal(difficulty) returns, the first `difficulty` characters of
\* the block's hash are '0', and for difficulty 0 the nonce is the one the
\* block had when Seal was called.
C7_SealPostcondition ==
    SealReturned
        => /\ \A i \in 1..difficulty :
                 i <= Len(block.hash) /\ SubSeq(block.hash, i, i) = "0"
           /\ difficulty = 0 => block.nonce = entry.nonce

\* A caller's seal at difficulty 2 has returned after several turns of the
\* loop, on a block constructed with nonce 3.
C7_Witness ==
    /\ SealReturned /\ pc = "built" /\ difficulty = 2
    /\ entry.nonce = 3 /\ block.nonce > entry.nonce + 1
    /\ SubSeq(block.hash, 1, 2) = "00"

\* A block has just been constructed: by the caller, or by
\* mine_pending_transactions, which has not sealed it yet.
JustConstructed ==
    \/ pc = "built" /\ LastCall.op = "Block"
    \/ pc = "seal" /\ miner_address # None /\ block.nonce = entry.nonce

\* C8: B.hash = ComputeHash(B) immediately after Construct and immediately
\* after any Seal(difficulty) call returns, whatever the difficulty and the
\* state of the block Seal is called on.
C8_HashInvariant ==
    (JustConstructed \/ SealReturned) => block.hash = calculate_hash(block)

\* C9: when MinePendingTransactions(miner) has returned, the chain is one
\* block longer than at the call, the new block's previous_hash is the hash of
\* the block that was last at the call, its transactions are the pool's
\* contents at the call, in order, and the pool is exactly
\* [Transaction(None, miner, 1)].
C9_MineEffect ==
    (pc = "idle" /\ log # <<>> /\ LastCall.op = "mine_pending_transactions")
        => /\ Len(chain) = entry.len + 1
           /\ get_last_block.previous_hash = entry.last
           /\ Txs(get_last_block.transactions) = entry.pool
           /\ Txs(pending_transactions) = << Transaction(None, LastCall.who, 1) >>

\* A mine has returned that was called on a pool of two transactions, the
\* reward of the mine before it among them.
C9_Witness ==
    /\ pc = "idle" /\ log # <<>> /\ LastCall.op = "mine_pending_transactions"
    /\ Len(entry.pool) = 2 /\ entry.pool[1].sender = None
    /\ Txs(get_last_block.transactions) = entry.pool
    /\ Len(chain) = 3

\* The places (block, position) of the transactions of the chain.
ChainPlaces ==
    { p \in (0..(Len(chain) - 1)) \X (1..MaxCalls + 1) :
         p[2] <= Len(listHeap[At(p[1]).transactions]) }

TxAt(p) == txHeap[listHeap[At(p[1]).transactions][p[2]]]

RECURSIVE SumAmounts(_)
SumAmounts(P) ==
    IF P = {} THEN 0
    ELSE LET p == CHOOSE q \in P : TRUE
         IN  TxAt(p).amount + SumAmounts(P \ {p})

Received(a) == SumAmounts({ p \in ChainPlaces : TxAt(p).receiver = a })
Sent(a) == SumAmounts({ p \in ChainPlaces : TxAt(p).sender = a })

\* C10: for every address, GetBalance(address) is the sum of the amounts of the
\* chain's transactions it receives minus the sum of those it sends; the
\* transactions of the pending pool are not counted, and an address in no
\* transaction of the chain has balance 0.
C10_Balance ==
    \A a \in Addresses \cup Miners \cup {Unknown} :
        /\ get_balance(a) = Received(a) - Sent(a)
        /\ (\A p \in ChainPlaces : TxAt(p).sender # a /\ TxAt(p).receiver # a)
              => get_balance(a) = 0

\* The chain holds a transfer of B to itself and a reward, and the pool holds a
\* reward that the balance of its receiver does not count.
C10_Witness ==
    /\ \E p \in ChainPlaces : TxAt(p).sender = "B" /\ TxAt(p).receiver = "B"
    /\ \E p \in ChainPlaces : TxAt(p).sender = None
    /\ get_balance("B") = 0
    /\ \E m \in Miners :
          /\ Txs(pending_transactions) = << Transaction(None, m, 1) >>
          /\ get_balance(m) = 0


\* C11: IsChainValid() returns true if and only if every block i >= 1 stores
\* the hash of its fields and has previous_hash equal to the stored hash of
\* block i-1; and after a hashed field of the genesis block is changed, its
\* stored hash left as it was, the verdict is the one before the change.
C11_Verdict ==
    /\ is_chain_valid.valid <=> Linked
    /\ tamper.kind = "genesis"
          => /\ PreHash(At(0)) # tamper.data
             /\ At(0).hash = Sha256Hex(tamper.data)
             /\ is_chain_valid.valid = tamper.valid

\* The transaction list of the genesis block of a valid chain of three blocks
\* was changed, its stored hash is no longer the hash of its fields, and the
\* chain is still reported valid.
C11_Witness ==
    /\ tamper.kind = "genesis" /\ tamper.valid
    /\ Len(chain) = 3
    /\ Txs(At(0).transactions) # <<>>
    /\ Stale(0)
    /\ is_chain_valid.valid


\* Two is_chain_valid() calls of the log with nothing but queries between them
\* returned the same verdict.
SameVerdict ==
    \A i, j \in CallsOf("is_chain_valid") :
        (i < j /\ \A k \in i..j : log[k].op \in QueryOps) => log[i].ret = log[j].ret

\* A step that is a call of a query leaves the heaps, the chain, the pool and
\* the difficulty as they were.
C12_Step ==
    (Len(log') = Len(log) + 1 /\ log'[Len(log')].op \in QueryOps)
        => /\ ledger' = ledger
           /\ SameVerdict'

\* C12: IsChainValid(), GetBalance(address) and GetLastBlock() leave chain,
\* pending_transactions, difficulty and every field of every block unchanged,
\* and IsChainValid() called again on the unmodified chain returns the verdict
\* it returned before, valid or invalid.
C12_ReadOnly == [][C12_Step]_vars

\* is_chain_valid() was called twice, with a get_balance call in between, on a
\* chain whose second block is not linked, and returned the same invalid verdict.
C12_Witness ==
    /\ Len(log) = 4
    /\ log[2].op = "is_chain_valid" /\ log[3].op = "get_balance"
    /\ log[4].op = "is_chain_valid"
    /\ log[2].ret = Verdict(FALSE, LinkMismatch, 1)
    /\ log[4].ret = log[2].ret
    /\ is_chain_valid = log[4].ret


\* The block b with another nonce, and the hash of its fields.
WithNonce(b, n) == Block(b.previous_hash, b.transactions, b.timestamp, n)

\* The difficulty can be achieved by the block being sealed: its stored hash,
\* or the hash at a nonce above its own, has `difficulty` leading zeros.  (For
\* a block whose stored hash is the hash of its fields: some nonce greater than
\* or equal to its own yields such a hash.)
Achievable ==
    \/ Sealed(block, difficulty)
    \/ \E n \in (block.nonce + 1)..MaxNonce : Sealed(WithNonce(block, n), difficulty)

\* C13: a Seal(difficulty) call in progress on a block for which the
\* difficulty is achievable eventually returns, with a hash of `difficulty`
\* leading zeros, and if MinePendingTransactions made the call, the block is
\* then the last block of the chain.
C13_SealTerminates ==
    (pc = "seal" /\ Achievable)
        ~> /\ pc \in {"reward", "built"}
           /\ Sealed(block, difficulty)
           /\ miner_address # None => get_last_block = block

\* A mine at difficulty 2 has appended a block after at least five turns of the loop.
C13_Witness ==
    /\ pc = "reward" /\ difficulty = 2
    /\ block.nonce >= 5
    /\ get_last_block = block
    /\ Sealed(block, difficulty)


\* The least nonce, from the one the block had when Seal was called, at which
\* the hash of the block's fields has `difficulty` leading zeros.
FirstNonce ==
    Least({ n \in entry.nonce..MaxNonce : Sealed(WithNonce(entry.block, n), difficulty) })

\* C14: when Seal(difficulty) returns on a block whose stored hash was the hash
\* of its fields at the call, the nonce is the least one, from the starting
\* nonce on, whose hash has `difficulty` leading zeros, the stored hash is the
\* hash at that nonce, and previous_hash, timestamp and transactions are as
\* they were at the call.
C14_LeastNonce ==
    (SealReturned /\ entry.fresh)
        => /\ block.nonce = FirstNonce
           /\ block.hash = calculate_hash(block)
           /\ block.previous_hash = entry.block.previous_hash
           /\ block.timestamp = entry.block.timestamp
           /\ block.transactions = entry.block.transactions
           /\ Txs(block.transactions) = entry.txs

\* The caller's seal at difficulty 2 of a block constructed with nonce 3 over a
\* list of one transaction has returned after at least three turns of the loop.
C14_Witness ==
    /\ SealReturned /\ entry.fresh /\ miner_address = None
    /\ difficulty = 2 /\ entry.nonce = 3 /\ Len(entry.txs) = 1
    /\ block.nonce >= 6
    /\ block.nonce = FirstNonce


\* The Transaction objects of a list object.
Members(l) == { listHeap[l][j] : j \in 1..Len(listHeap[l]) }

\* The add_transaction calls of the log that took effect while a mine was running.
RacingCalls == { i \in CallsOf("add_transaction") : log[i].who \in {"seal", "reward"} }

\* The number, among the mines, of the mine that was running at call i of the log.
MineOf(i) == Cardinality({ k \in CallsOf("mine_pending_transactions") : k < i })

\* C15: a transaction added while a mine is in progress (after the candidate
\* block was built, before the pool is replaced) is not part of the block under
\* construction nor of the block that mine appends; it is in the pool when the
\* mine has completed and in the next mined block after the next mine.
C15_PoolSnapshot ==
    \A i \in RacingCalls :
        LET m == MineOf(i)
        IN  /\ (Mined < m /\ pc = "seal") => log[i].tx \notin Members(block.transactions)
            /\ Mined >= m => log[i].tx \notin Members(At(m).transactions)
            /\ Mined = m => log[i].tx \in Members(pending_transactions)
            /\ Mined > m => log[i].tx \in Members(At(m + 1).transactions)

\* C16: with add_transaction calls interleaved between the steps of a mine,
\* once the mine has completed the block it appended stores the hash of its
\* fields and IsChainValid() returns true.
C16_IntegrityUnderRace ==
    (pc = "idle" /\ Mined >= 1)
        => /\ \A i \in Appended : ~Stale(i)
           /\ is_chain_valid.valid


\* The call of the log that is the k-th mine_pending_transactions call.
KthMine(k) ==
    CHOOSE i \in CallsOf("mine_pending_transactions") :
        Cardinality({ j \in CallsOf("mine_pending_transactions") : j <= i }) = k

\* The places of the chain that hold a reward transaction.
RewardPlaces == { p \in ChainPlaces : TxAt(p).sender = None }

RECURSIVE SumBalances(_)
SumBalances(S) ==
    IF S = {} THEN 0
    ELSE LET a == CHOOSE x \in S : TRUE
         IN  get_balance(a) + SumBalances(S \ {a})

C18_Injective ==
    tamper.kind = "fields" => PreHash(At(tamper.index)) # tamper.data


\* C19: on a ledger whose difficulty is larger than the length of a digest, the
\* hash of a block being sealed never meets the target, so the seal goes on to
\* the next nonce: a MinePendingTransactions call never appends its block and
\* never replaces the pool, and no second call is ever made.
C19_NeverSealed ==
    difficulty > DigestLen
        => /\ pc = "seal" => /\ ~Sealed(block, difficulty)
                             /\ Len(Prefix(block.hash, difficulty)) < Len(Zeros(difficulty))
           /\ pc # "reward"
           /\ Mined = 0
           /\ Cardinality(CallsOf("mine_pending_transactions")) <= 1
           /\ Len(chain) = 1 + Added
           /\ pending_transactions = 2
           /\ \A t \in Members(pending_transactions) : txHeap[t].sender # None

\* A mine on such a ledger, called on a pool of one transaction, has tried
\* every nonce up to MaxNonce, one of them with a hash of zeros only, and has
\* appended nothing.
C19_Witness ==
    /\ difficulty > DigestLen /\ pc = "seal"
    /\ block.nonce = MaxNonce
    /\ Len(entry.pool) = 1
    /\ \E n \in 0..MaxNonce : WithNonce(block, n).hash = Zeros(DigestLen)
    /\ Len(chain) = 1
    /\ Txs(pending_transactions) = entry.pool


\* The stored hash of every appended block has `difficulty` leading zeros.
AllSealed == \A i \in Appended : Sealed(At(i), difficulty)

\* C20 as stated: in every state reached through AddTransaction,
\* MinePendingTransactions and AddBlock, IsChainValid() returning true implies
\* that every block i >= 1 has a hash with `difficulty` leading zeros.
C20_Original == is_chain_valid.valid => AllSealed

\* C20, amended: in every state reached through AddTransaction and
\* MinePendingTransactions, without AddBlock, every block i >= 1 has a hash
\* with `difficulty` leading zeros, whatever IsChainValid() returns.
C20_ProofOfWork == Added = 0 => AllSealed

\* Two blocks were mined at difficulty 2, each after some turns of the loop.
C20_Witness ==
    /\ Added = 0 /\ pc = "idle" /\ difficulty = 2 /\ Len(chain) = 3
    /\ At(1).nonce > 0 /\ At(2).nonce > 0
    /\ AllSealed
    /\ is_chain_valid.valid

=============================================================================
